---- MODULE Spec2Model ----
(***************************************************************************)
(* Tender notifier: the anchor pipeline (demonstrate.py) and the tabular   *)
(* pipeline (demonstration.py).  A text is a sequence of one-character     *)
(* strings; the seen store is the JSON file seen_tenders.json, kept as the *)
(* sequence of chunks json.dump writes.                                    *)
(***************************************************************************)
EXTENDS Integers, Sequences, FiniteSets, TLC

\* ------------------------------------------------------------------ text

LowerAlpha == <<"a", "b", "c", "d", "e", "f", "g", "h", "i", "j", "k", "l", "m", "n", "o", "p", "q", "r", "s", "t", "u", "v", "w", "x", "y", "z">>

UpperAlpha == <<"A", "B", "C", "D", "E", "F", "G", "H", "I", "J", "K", "L", "M", "N", "O", "P", "Q", "R", "S", "T", "U", "V", "W", "X", "Y", "Z">>

Digits == {"0", "1", "2", "3", "4", "5", "6", "7", "8", "9"}

Letters == {LowerAlpha[i] : i \in 1..Len(LowerAlpha)} \cup {UpperAlpha[i] : i \in 1..Len(UpperAlpha)}

\* \s and \w of the re module, over the characters the model uses
SpaceChars == {" "}

WordChars == Letters \cup Digits \cup {"_"}

Min(S) == CHOOSE x \in S : \A y \in S : x <= y

LowerChar(c) ==
    IF \E i \in 1..Len(UpperAlpha) : UpperAlpha[i] = c
    THEN LowerAlpha[CHOOSE i \in 1..Len(UpperAlpha) : UpperAlpha[i] = c]
    ELSE c

\* str.lower()
lower(s) == [i \in 1..Len(s) |-> LowerChar(s[i])]

\* Python's  k in s  for strings
In(k, s) == \E i \in 0..(Len(s) - Len(k)) : SubSeq(s, i + 1, i + Len(k)) = k

\* str.startswith
startswith(s, p) == Len(p) <= Len(s) /\ SubSeq(s, 1, Len(p)) = p

\* str.strip()
strip(s) ==
    LET keep == {i \in 1..Len(s) : s[i] \notin SpaceChars}
    IN  IF keep = {} THEN <<>>
        ELSE SubSeq(s, Min(keep), CHOOSE j \in keep : \A k \in keep : k <= j)

\* s[:n]
Take(s, n) == SubSeq(s, 1, IF Len(s) < n THEN Len(s) ELSE n)

\* str.split(sep) for a one-character separator
RECURSIVE split(_, _)
split(s, sep) ==
    LET at == {i \in 1..Len(s) : s[i] = sep}
    IN  IF at = {} THEN <<s>>
        ELSE <<SubSeq(s, 1, Min(at) - 1)>> \o split(SubSeq(s, Min(at) + 1, Len(s)), sep)

\* str.replace(old, ""), old not empty: every occurrence, left to right
RECURSIVE remove(_, _)
remove(s, old) ==
    LET at == {i \in 1..(Len(s) - Len(old) + 1) : SubSeq(s, i, i + Len(old) - 1) = old}
    IN  IF at = {} THEN s
        ELSE SubSeq(s, 1, Min(at) - 1) \o remove(SubSeq(s, Min(at) + Len(old), Len(s)), old)

\* " ".join(parts)
RECURSIVE join(_)
join(parts) ==
    IF parts = <<>> THEN <<>>
    ELSE IF Len(parts) = 1 THEN parts[1]
    ELSE parts[1] \o <<" ">> \o join(Tail(parts))

\* the first index from p on whose character is outside cls (Len(s) + 1 if none)
RunEnd(s, p, cls) ==
    LET out == {j \in p..Len(s) : s[j] \notin cls}
    IN  IF out = {} THEN Len(s) + 1 ELSE Min(out)

\* DATE_RE = \d{1,2}\s+\w+\s+\d{4} matched at index i: the index of the match's
\* last character, 0 when there is no match at i
DateEndAt(s, i) ==
    LET nd == IF i <= Len(s) /\ s[i] \in Digits
              THEN (IF i + 1 <= Len(s) /\ s[i + 1] \in Digits THEN 2 ELSE 1)
              ELSE 0
        p1 == i + nd
        p2 == RunEnd(s, p1, SpaceChars)
        p3 == RunEnd(s, p2, WordChars)
        p4 == RunEnd(s, p3, SpaceChars)
    IN  IF nd > 0 /\ p2 > p1 /\ p3 > p2 /\ p4 > p3 /\ p4 + 3 <= Len(s)
           /\ \A j \in p4..(p4 + 3) : s[j] \in Digits
        THEN p4 + 3 ELSE 0

\* DATE_RE.search(s): <<>> is None, <<m>> a match whose group(0) is m
DATE_RE_search(s) ==
    LET at == {i \in 1..Len(s) : DateEndAt(s, i) > 0}
    IN  IF at = {} THEN <<>> ELSE <<SubSeq(s, Min(at), DateEndAt(s, Min(at)))>>

\* ---------------------------------------------------------------- config

\* the default of the KEYWORDS environment variable (demonstrate.py)
DEFAULT_KEYWORDS == <<"e", "p", "r", "o", "c", "u", "r", "m", "e", "n", "t", ",", "e", "t", "e", "n", "d", "e", "r", ",", "e", "a", "u", "c", "t", "i", "o", "n", ",", "e", "s", "a", "l", "e", ",", "e", "d", "i", "s", "p", "o", "s", "a", "l", ",", "g", "o", "v", "e", "r", "n", "m", "e", "n", "t", " ", "E", "R", "P", ",", "e", "n", "i", "l", "a", "m", "i", ",", "e", "b", "i", "d", "d", "i", "n", "g", ",", "c", "o", "n", "t", "r", "a", "c", "t", " ", "m", "a", "n", "a", "g", "e", "m", "e", "n", "t", ",", "m", "e", "a", "s", "u", "r", "e", "m", "e", "n", "t", " ", "b", "o", "o", "k", ",", "e", "b", "i", "l", "l", "i", "n", "g">>
    \* "eprocurment,etender,eauction,esale,edisposal,government ERP,enilami,ebidding,contract management,measurement book,ebilling"

\* a KEYWORDS value set in the environment: blanks, upper case, an empty item
CUSTOM_KEYWORDS == <<" ", "E", "T", "e", "n", "d", "e", "r", " ", ",", ",", "e", "s", "a", "l", "e">>
    \* " ETender ,,esale"

\* KEYWORDS set to the empty string
EMPTY_KEYWORDS == <<>>
    \* ""

HTTP == <<"h", "t", "t", "p">>
    \* "http"

\* BASE_URL = "https://iimranchi.ac.in/tender/": its origin and its directory
SITE_ROOT == <<"h", "t", "t", "p", "s", ":", "/", "/", "i", "i", "m", "r", "a", "n", "c", "h", "i", ".", "a", "c", ".", "i", "n">>
    \* "https://iimranchi.ac.in"

BASE_DIR == <<"/", "t", "e", "n", "d", "e", "r", "/">>
    \* "/tender/"

BASE_URL == [root |-> SITE_ROOT, dir |-> BASE_DIR]

\* len(title) < 6
MIN_TITLE_LEN == 6

\* [:300]
SNIPPET_MAX == 300

\* KEYWORDS = [k.strip().lower() for k in KEYWORDS.split(",") if k.strip()]
parse_keywords(raw) ==
    LET parts == SelectSeq(split(raw, ","), LAMBDA k : strip(k) # <<>>)
    IN  [i \in 1..Len(parts) |-> lower(strip(parts[i]))]

KeywordSettings == {DEFAULT_KEYWORDS, CUSTOM_KEYWORDS, EMPTY_KEYWORDS}

\* DRY_RUN, and all([SMTP_HOST, SMTP_USER, SMTP_PASS, FROM_EMAIL, to_addrs])
MailSettings ==
    { [DRY_RUN |-> TRUE,  smtp_configured |-> FALSE],
      [DRY_RUN |-> FALSE, smtp_configured |-> FALSE],
      [DRY_RUN |-> FALSE, smtp_configured |-> TRUE] }

\* -------------------------------------------------------------- documents

\* <a href="/t/1">ETender Road</a> inside a parent whose text is "ETender Road 4 Sep 2025"
AnchorA ==
    [text |-> <<"E", "T", "e", "n", "d", "e", "r", " ", "R", "o", "a", "d">>,
     href |-> <<"/", "t", "/", "1">>,
     parent_text |-> <<"E", "T", "e", "n", "d", "e", "r", " ", "R", "o", "a", "d", " ", "4", " ", "S", "e", "p", " ", "2", "0", "2", "5">>]

\* <a href="/t/2">Road works</a> inside a parent whose text is "Road works esale"
AnchorB ==
    [text |-> <<"R", "o", "a", "d", " ", "w", "o", "r", "k", "s">>,
     href |-> <<"/", "t", "/", "2">>,
     parent_text |-> <<"R", "o", "a", "d", " ", "w", "o", "r", "k", "s", " ", "e", "s", "a", "l", "e">>]

\* <a href="https://iimranchi.ac.in/t/1">eAuction Road</a> inside a parent whose text is "eAuction Road"
AnchorC ==
    [text |-> <<"e", "A", "u", "c", "t", "i", "o", "n", " ", "R", "o", "a", "d">>,
     href |-> <<"h", "t", "t", "p", "s", ":", "/", "/", "i", "i", "m", "r", "a", "n", "c", "h", "i", ".", "a", "c", ".", "i", "n", "/", "t", "/", "1">>,
     parent_text |-> <<"e", "A", "u", "c", "t", "i", "o", "n", " ", "R", "o", "a", "d">>]

\* <a href="t/3">Ebidding 22</a> inside a parent whose text is "Ebidding 22 closes 12 Oct 2025"
AnchorD ==
    [text |-> <<"E", "b", "i", "d", "d", "i", "n", "g", " ", "2", "2">>,
     href |-> <<"t", "/", "3">>,
     parent_text |-> <<"E", "b", "i", "d", "d", "i", "n", "g", " ", "2", "2", " ", "c", "l", "o", "s", "e", "s", " ", "1", "2", " ", "O", "c", "t", " ", "2", "0", "2", "5">>]

\* <a href="/t/4">x</a> inside a parent whose text is "x"
AnchorE ==
    [text |-> <<"x">>,
     href |-> <<"/", "t", "/", "4">>,
     parent_text |-> <<"x">>]

\* <a href="/t/5">Esale lot 7</a> inside a parent whose text is "Esale lot 7"
AnchorF ==
    [text |-> <<"E", "s", "a", "l", "e", " ", "l", "o", "t", " ", "7">>,
     href |-> <<"/", "t", "/", "5">>,
     parent_text |-> <<"E", "s", "a", "l", "e", " ", "l", "o", "t", " ", "7">>]

\* the documents the site serves: the anchors of the content region, in order
Pages ==
    { <<AnchorA, AnchorB>>,
      <<AnchorA, AnchorD>>,
      <<AnchorC, AnchorD, AnchorB, AnchorF>>,
      <<AnchorE, AnchorA, AnchorC>> }

\* --------------------------------------------------------- ordered mappings
\* a dict is the sequence of its <<key, value>> items in insertion order

keys(d) == {d[i][1] : i \in 1..Len(d)}

has_key(d, k) == \E i \in 1..Len(d) : d[i][1] = k

get(d, k) == d[CHOOSE i \in 1..Len(d) : d[i][1] = k][2]

\* d[k] = v
put(d, k, v) ==
    IF has_key(d, k)
    THEN [i \in 1..Len(d) |-> IF d[i][1] = k THEN <<k, v>> ELSE d[i]]
    ELSE Append(d, <<k, v>>)

values(d) == [i \in 1..Len(d) |-> d[i][2]]

\* --------------------------------------------------------- demonstrate.py

\* urllib.parse.urljoin for an absolute href, a root-relative one and a relative one
urljoin(base, href) ==
    IF startswith(href, HTTP) THEN href
    ELSE IF startswith(href, <<"/">>) THEN base.root \o href
    ELSE base.root \o base.dir \o href

\* variant: a later anchor of the same href replaces the record of the first
RECURSIVE parse_loop_keep_last(_, _, _, _)
parse_loop_keep_last(anchors, all_text, base_url, items) ==
    IF anchors = <<>> THEN items
    ELSE LET a == Head(anchors)
             href == urljoin(base_url, a.href)
             near == DATE_RE_search(a.parent_text)
             item == [title |-> a.text, href |-> href,
                      date |-> IF near # <<>> THEN near ELSE DATE_RE_search(all_text),
                      snippet |-> Take(strip(remove(a.parent_text, a.text)), SNIPPET_MAX)]
         IN  IF Len(a.text) < MIN_TITLE_LEN
             THEN parse_loop_keep_last(Tail(anchors), all_text, base_url, items)
             ELSE parse_loop_keep_last(Tail(anchors), all_text, base_url, put(items, href, item))

\* the loop of parse_tenders over content.find_all("a", href=True)
RECURSIVE parse_loop(_, _, _, _)
parse_loop(anchors, all_text, base_url, items) ==
    IF anchors = <<>> THEN items
    ELSE LET a == Head(anchors)
             title == a.text
             href == urljoin(base_url, a.href)
             parent_text == a.parent_text
             near == DATE_RE_search(parent_text)
             date_match == IF near # <<>> THEN near ELSE DATE_RE_search(all_text)
             snippet == Take(strip(remove(parent_text, title)), SNIPPET_MAX)
             item == [title |-> title, href |-> href, date |-> date_match, snippet |-> snippet]
         IN  IF title = <<>> \/ Len(title) < MIN_TITLE_LEN
             THEN parse_loop(Tail(anchors), all_text, base_url, items)
             ELSE IF has_key(items, href)
             THEN parse_loop(Tail(anchors), all_text, base_url, items)
             ELSE parse_loop(Tail(anchors), all_text, base_url, put(items, href, item))

\* content.get_text(" ", strip=True)
content_text(html) == join([i \in 1..Len(html) |-> html[i].parent_text])

parse_tenders(html, base_url) ==
    values(parse_loop(html, content_text(html), base_url, <<>>))

\* variant: the title is not lowercased before the search
is_relevant_cased(title, keywords) ==
    \E i \in 1..Len(keywords) : keywords[i] # <<>> /\ In(lower(keywords[i]), title)

\* variant: with no keywords every title is relevant
is_relevant_vacuous(title, keywords) ==
    \/ keywords = <<>>
    \/ \E i \in 1..Len(keywords) : keywords[i] # <<>> /\ In(lower(keywords[i]), lower(title))

is_relevant(title, keywords) ==
    LET s == lower(title)
    IN  \E i \in 1..Len(keywords) : keywords[i] # <<>> /\ In(lower(keywords[i]), s)

\* relevant = [t for t in tenders if is_relevant(t["title"], KEYWORDS)]
filter_relevant(tenders, keywords) ==
    SelectSeq(tenders, LAMBDA t : is_relevant(t.title, keywords))

\* json.dump(seen, f, indent=2): the chunks written, in order
json_dump(d) ==
    IF d = <<>> THEN << <<"{}">> >>
    ELSE << <<"{">> >> \o [i \in 1..Len(d) |-> <<"item", d[i][1], d[i][2]>>] \o << <<"}">> >>

\* json.load: raises on anything but a complete document
json_load(text) ==
    IF text = << <<"{}">> >> THEN [raised |-> FALSE, value |-> <<>>]
    ELSE IF Len(text) >= 3 /\ text[1] = <<"{">> /\ text[Len(text)] = <<"}">>
            /\ \A i \in 2..(Len(text) - 1) : text[i][1] = "item"
    THEN [raised |-> FALSE,
          value |-> [i \in 1..(Len(text) - 2) |-> <<text[i + 1][2], text[i + 1][3]>>]]
    ELSE [raised |-> TRUE, value |-> <<>>]

\* the file SEEN_FILE: whether it exists, and the chunks it holds
NoFile == [exists |-> FALSE, text |-> <<>>]

\* f.write(chunk) at offset off of a file object: the chunk lands at the
\* object's own offset, past a gap of zero bytes if the file is shorter
write_at(text, off, chunk) ==
    IF off < Len(text) THEN [text EXCEPT ![off + 1] = chunk]
    ELSE text \o [j \in 1..(off - Len(text)) |-> <<"\\0">>] \o <<chunk>>

\* variant: a payload json.load rejects is taken for an empty mapping
load_seen_reset(file) ==
    IF file.exists /\ ~json_load(file.text).raised THEN json_load(file.text)
    ELSE [raised |-> FALSE, value |-> <<>>]

load_seen(file) ==
    IF file.exists THEN json_load(file.text)
    ELSE [raised |-> FALSE, value |-> <<>>]

\* variant: the new items are taken from the end of the listing first
diff_new_reversed(relevant, seen_map) ==
    LET new == SelectSeq(relevant, LAMBDA t : ~has_key(seen_map, t.href))
    IN  [i \in 1..Len(new) |-> new[Len(new) + 1 - i]]

\* variant: every relevant item is taken for new
diff_new_all(relevant, seen_map) == relevant

\* variant: an item is new unless an entry of the same title is stored
diff_new_by_title(relevant, seen_map) ==
    SelectSeq(relevant,
              LAMBDA t : ~\E i \in 1..Len(seen_map) : seen_map[i][2].title = t.title)

\* new_items = [t for t in relevant if t["href"] not in seen]
diff_new(relevant, seen_map) ==
    SelectSeq(relevant, LAMBDA t : ~has_key(seen_map, t.href))

\* variant: the SMTP settings are tested before DRY_RUN
send_email_smtp_unordered(mail) ==
    IF ~mail.smtp_configured THEN {FALSE}
    ELSE IF mail.DRY_RUN THEN {TRUE}
    ELSE {TRUE, FALSE}

\* what send_email_smtp can return under a mail setting
send_email_smtp(mail) ==
    IF mail.DRY_RUN THEN {TRUE}
    ELSE IF ~mail.smtp_configured THEN {FALSE}
    ELSE {TRUE, FALSE}

\* variant: the entry says notified whatever send_email_smtp returned
seen_entry_notified(t, ok, utcnow) ==
    [title |-> t.title, date |-> t.date, notified |-> TRUE, first_seen_utc |-> utcnow]

\* the entry main stores for item t
seen_entry(t, ok, utcnow) ==
    [title |-> t.title, date |-> t.date, notified |-> ok, first_seen_utc |-> utcnow]

\* variant: an item is marked seen only when its delivery succeeded
mark_seen_on_success(seen_map, t, ok, utcnow) ==
    IF ok THEN put(seen_map, t.href, [title |-> t.title, date |-> t.date, notified |-> ok,
                                      first_seen_utc |-> utcnow])
    ELSE seen_map

\* seen[t["href"]] = {...}, whatever send_email_smtp returned
mark_seen(seen_map, t, ok, utcnow) ==
    put(seen_map, t.href, seen_entry(t, ok, utcnow))

\* ------------------------------------------------------- demonstration.py

\* KEYWORDS of demonstration.py
TAB_KEYWORDS ==
    << <<"e", "p", "r", "o", "c", "u", "r", "m", "e", "n", "t">>,
       <<"e", "t", "e", "n", "d", "e", "r">>,
       <<"e", "a", "u", "c", "t", "i", "o", "n">>,
       <<"e", "s", "a", "l", "e">>,
       <<"e", "d", "i", "s", "p", "o", "s", "a", "l">>,
       <<"g", "o", "v", "e", "r", "n", "m", "e", "n", "t", " ", "E", "R", "P">>,
       <<"e", "n", "i", "l", "a", "m", "i">>,
       <<"e", "b", "i", "d", "d", "i", "n", "g">>,
       <<"c", "o", "n", "t", "r", "a", "c", "t", " ", "m", "a", "n", "a", "g", "e", "m", "e", "n", "t">>,
       <<"m", "e", "a", "s", "u", "r", "e", "m", "e", "n", "t", " ", "b", "o", "o", "k">>,
       <<"e", "b", "i", "l", "l", "i", "n", "g">>,
       <<"e", "p", "r", "o", "c", "u", "r", "e">>,
       <<"e", "p", "r", "o", "c", "u", "r", "e", "m", "e", "n", "t">> >>

\* url = "https://eprocure.gov.in/eprocure/app?page=...": its origin and its directory
TAB_ROOT == <<"h", "t", "t", "p", "s", ":", "/", "/", "e", "p", "r", "o", "c", "u", "r", "e", ".", "g", "o", "v", ".", "i", "n">>
    \* "https://eprocure.gov.in"

TAB_DIR == <<"/", "e", "p", "r", "o", "c", "u", "r", "e", "/">>
    \* "/eprocure/"

\* a header row: th cells only
RowHeader ==
    [tds |-> <<>>,
     a |-> <<>>]

\* a keyword in the title: T1 | eTender supply | PWD | 10 | 12 Oct 2025  -> /x/1
RowTender ==
    [tds |-> << <<"T", "1">>,
              <<"e", "T", "e", "n", "d", "e", "r", " ", "s", "u", "p", "p", "l", "y">>,
              <<"P", "W", "D">>,
              <<"1", "0">>,
              <<"1", "2", " ", "O", "c", "t", " ", "2", "0", "2", "5">> >>,
     a |-> <<<<"/", "x", "/", "1">>>>]

\* a keyword only across two cells of extra_text: T2 | Supply | Government | ERP | 1 Nov 2025  -> http://x.in/2
RowAcross ==
    [tds |-> << <<"T", "2">>,
              <<"S", "u", "p", "p", "l", "y">>,
              <<"G", "o", "v", "e", "r", "n", "m", "e", "n", "t">>,
              <<"E", "R", "P">>,
              <<"1", " ", "N", "o", "v", " ", "2", "0", "2", "5">> >>,
     a |-> <<<<"h", "t", "t", "p", ":", "/", "/", "x", ".", "i", "n", "/", "2">>>>]

\* three cells, no anchor: T3 | Esale of scrap | Stores
RowShort ==
    [tds |-> << <<"T", "3">>,
              <<"E", "s", "a", "l", "e", " ", "o", "f", " ", "s", "c", "r", "a", "p">>,
              <<"S", "t", "o", "r", "e", "s">> >>,
     a |-> <<>>]

\* the tender id of RowTender again: T1 | ebilling portal | Accounts | 5 | 3 Dec 2025  -> /x/9
RowSameId ==
    [tds |-> << <<"T", "1">>,
              <<"e", "b", "i", "l", "l", "i", "n", "g", " ", "p", "o", "r", "t", "a", "l">>,
              <<"A", "c", "c", "o", "u", "n", "t", "s">>,
              <<"5">>,
              <<"3", " ", "D", "e", "c", " ", "2", "0", "2", "5">> >>,
     a |-> <<<<"/", "x", "/", "9">>>>]

\* no keyword: T6 | Road works | PWD
RowPlain ==
    [tds |-> << <<"T", "6">>,
              <<"R", "o", "a", "d", " ", "w", "o", "r", "k", "s">>,
              <<"P", "W", "D">> >>,
     a |-> <<>>]

\* one cell: measurement book
RowOne ==
    [tds |-> << <<"m", "e", "a", "s", "u", "r", "e", "m", "e", "n", "t", " ", "b", "o", "o", "k">> >>,
     a |-> <<>>]

\* the pages the browser shows: the rows "table.list_table tr" selects and
\* the rows "table tr" selects
TabPages ==
    { [list_rows |-> <<>>, all_rows |-> <<>>],
      [list_rows |-> <<RowHeader, RowTender, RowAcross>>,
       all_rows |-> <<RowHeader, RowTender, RowAcross>>],
      [list_rows |-> <<RowHeader>>,
       all_rows |-> <<RowHeader, RowShort, RowPlain>>],
      [list_rows |-> <<RowHeader, RowTender, RowOne, RowSameId>>,
       all_rows |-> <<RowHeader, RowTender, RowOne, RowSameId>>] }

is_relevant_tender(title, organisation, extra_text, keywords) ==
    LET text == lower(title \o <<" ">> \o organisation \o <<" ">> \o extra_text)
    IN  \E i \in 1..Len(keywords) : In(lower(keywords[i]), text)

\* rows = soup.select("table.list_table tr"), or the fallback soup.select("table tr")
select_rows(page) ==
    IF page.list_rows = <<>> \/ Len(page.list_rows) <= 1 THEN page.all_rows
    ELSE page.list_rows

\* variant: an index past the row is clamped to the last cell
cell_clamped(tds, n) ==
    IF Len(tds) > n THEN tds[n + 1] ELSE IF tds = <<>> THEN <<>> ELSE tds[Len(tds)]

\* tds[n].get_text(strip=True) if len(tds) > n else ""
cell(tds, n) == IF Len(tds) > n THEN tds[n + 1] ELSE <<>>

\* the link of a row: its first anchor's href resolved against url, <<>> is None
row_link(row) ==
    IF row.a = <<>> THEN <<>>
    ELSE IF startswith(row.a[1], HTTP) THEN <<row.a[1]>>
    ELSE <<urljoin([root |-> TAB_ROOT, dir |-> TAB_DIR], row.a[1])>>

\* the fields scrape_latest_tenders reads from a row
row_fields(row) ==
    [tender_id |-> cell(row.tds, 0),
     title |-> cell(row.tds, 1),
     organisation |-> cell(row.tds, 2),
     closing_date |-> cell(row.tds, 4),
     link |-> IF row_link(row) = <<>> THEN <<>> ELSE row_link(row)[1],
     extra_text |-> join(row.tds)]

\* variant: the table is keyed by the link of the row
db_key_link(f) == f.link

\* tender_id TEXT PRIMARY KEY: the column on which an INSERT collides
db_key(f) == f.tender_id

\* the values of the INSERT, keyed by tender_id
db_row(f, utcnow) ==
    [title |-> f.title, organisation |-> f.organisation, closing_date |-> f.closing_date,
     link |-> f.link, scraped_at |-> utcnow]

\* ------------------------------------------------------------------ state

\* the most runs a behaviour launches; the clock datetime.utcnow() reads
\* advances once per launch
MaxRuns == 2

\* the slots a run of demonstrate.py executes in: a scheduler that serializes
\* the runs uses the first only
Procs == {"run1", "run2"}

Serial == {"run1"}

VARIABLES
    script,       \* which script the behaviour runs: "demonstrate" | "demonstration"
    KEYWORDS,     \* the keyword list of the script
    disk,         \* the file SEEN_FILE
    site,         \* the document BASE_URL serves
    mail,         \* DRY_RUN and the SMTP settings of the environment
    now,          \* the clock; also the number of runs launched
    status,       \* per slot: "idle" | "running" | "done" (exit 0) | "error" (uncaught exception, exit 1) | "killed"
    pc,           \* per slot: the statement of main the run is at, or stopped at
    html,         \* per slot: main's html
    tenders,      \* per slot: main's tenders
    relevant,     \* per slot: main's relevant
    seen,         \* per slot: main's seen
    new_items,    \* per slot: main's new_items
    todo,         \* per slot: the items the for loop of main has not reached yet
    buf,          \* per slot: the chunks save_seen has not written yet
    pos,          \* per slot: the offset, in chunks, of the file object save_seen writes to
    sent,         \* history, per slot: the calls of send_email_smtp of the run, <<href, ok>>
    pre,          \* history, per slot: the file when the run was launched
    raised,       \* history, per slot: the exception the run raised, "none" if none
    pred,         \* history, per slot: the run that completed last before this one was launched
    last,         \* history: the run that completed last: its document, and the file it left
    attempted,    \* history: the identities send_email_smtp was called for
    reattempted,  \* history: the identities it was called for more than once
    saved,        \* history: the keys a completed save_seen has written
    aborted,      \* history: some run ended without completing
    overlapped,   \* history: some run was launched while another was running
    prior,        \* history, per slot: whether the run before in the slot ended between its first call of
                  \* send_email_smtp and save_seen, and then its document and the identities it called for
    dry_saved,    \* history: the identities a completed run under DRY_RUN has saved
    redelivered,  \* history: the identities of dry_saved send_email_smtp was called for without DRY_RUN
    tstatus,      \* demonstration.py: "idle" | "running" | "done" (exit 0) | "error" (exit 1) | "killed"
    tpc,          \* demonstration.py: the statement the run is at, or stopped at
    rows,         \* demonstration.py: the rows the for loop has not reached yet
    db,           \* demonstration.py: the committed rows of table tenders, by tender_id
    tpre,         \* history: the committed rows when the run was launched
    txn,          \* demonstration.py: the rows inserted on conn and not committed
    new_count,    \* demonstration.py: new_count of scrape_latest_tenders
    processed,    \* demonstration.py: processed of scrape_latest_tenders
    caught,       \* demonstration.py: main printed "ERROR during run"
    judged        \* history: the fields of the row judged last and the verdict, <<>> before any

runVars == <<status, pc, html, tenders, relevant, seen, new_items, todo, buf, pos>>

histVars == <<sent, pre, raised, pred, last, attempted, reattempted, saved, aborted, overlapped,
              prior, dry_saved, redelivered>>

tabVars == <<tstatus, tpc, rows, db, tpre, txn, new_count, processed, caught, judged>>

vars == <<script, KEYWORDS, disk, site, mail, now, runVars, histVars, tabVars>>

NoRun == [ran |-> FALSE, html |-> <<>>, disk |-> NoFile]

NoPrior == [crashed |-> FALSE, html |-> <<>>, hrefs |-> {}]

Init ==
    /\ \/ /\ script = "demonstrate"
          /\ \E raw \in KeywordSettings : KEYWORDS = parse_keywords(raw)
          /\ site \in Pages
          /\ mail \in MailSettings
       \/ /\ script = "demonstration"
          /\ KEYWORDS = TAB_KEYWORDS
          /\ site = <<>>
          /\ mail = [DRY_RUN |-> FALSE, smtp_configured |-> FALSE]
    /\ disk = NoFile
    /\ now = 0
    /\ status = [p \in Procs |-> "idle"]
    /\ pc = [p \in Procs |-> "fetch"]
    /\ html = [p \in Procs |-> <<>>]
    /\ tenders = [p \in Procs |-> <<>>]
    /\ relevant = [p \in Procs |-> <<>>]
    /\ seen = [p \in Procs |-> <<>>]
    /\ new_items = [p \in Procs |-> <<>>]
    /\ todo = [p \in Procs |-> <<>>]
    /\ buf = [p \in Procs |-> <<>>]
    /\ pos = [p \in Procs |-> 0]
    /\ sent = [p \in Procs |-> <<>>]
    /\ pre = [p \in Procs |-> NoFile]
    /\ raised = [p \in Procs |-> "none"]
    /\ pred = [p \in Procs |-> NoRun]
    /\ last = NoRun
    /\ attempted = {}
    /\ reattempted = {}
    /\ saved = {}
    /\ aborted = FALSE
    /\ overlapped = FALSE
    /\ prior = [p \in Procs |-> NoPrior]
    /\ dry_saved = {}
    /\ redelivered = {}
    /\ tstatus = "idle"
    /\ tpc = "init_db"
    /\ rows = <<>>
    /\ db = <<>>
    /\ tpre = <<>>
    /\ txn = <<>>
    /\ new_count = 0
    /\ processed = 0
    /\ caught = FALSE
    /\ judged = <<>>

\* ----------------------------------------------------- demonstrate.py main

\* the run of slot p ends: exit 0 ("done"), an uncaught exception ("error"),
\* or the process is killed
Ended(p, how, file) ==
    /\ status' = [status EXCEPT ![p] = how]
    /\ last' = IF how = "done" THEN [ran |-> TRUE, html |-> html[p], disk |-> file] ELSE last
    /\ aborted' = (aborted \/ how # "done")

\* between runs the site publishes another listing
Publish ==
    /\ script = "demonstrate"
    /\ now < MaxRuns
    /\ \A p \in Procs : status[p] # "running"
    /\ \E page \in Pages \ {site} : site' = page
    /\ UNCHANGED <<tabVars, script, KEYWORDS, disk, mail, now, runVars, histVars>>

\* between runs the operator changes DRY_RUN or the SMTP settings
Configure ==
    /\ script = "demonstrate"
    /\ now < MaxRuns
    /\ \A p \in Procs : status[p] # "running"
    /\ \E m \in MailSettings \ {mail} : mail' = m
    /\ UNCHANGED <<tabVars, script, KEYWORDS, disk, site, now, runVars, histVars>>

\* the site publishes another listing while one run is under way and the
\* other is yet to be launched
PublishDuring ==
    /\ script = "demonstrate"
    /\ \E p \in Procs : status[p] = "running"
    /\ \E p \in Procs : status[p] = "idle"
    /\ \E page \in Pages \ {site} : site' = page
    /\ UNCHANGED <<tabVars, script, KEYWORDS, disk, mail, now, runVars, histVars>>

\* a process starts: the module level of demonstrate.py runs and main is entered
Start(p) ==
    /\ script = "demonstrate"
    /\ status[p] # "running"
    /\ now < MaxRuns
    /\ now' = now + 1
    /\ status' = [status EXCEPT ![p] = "running"]
    /\ pc' = [pc EXCEPT ![p] = "fetch"]
    /\ html' = [html EXCEPT ![p] = <<>>]
    /\ tenders' = [tenders EXCEPT ![p] = <<>>]
    /\ relevant' = [relevant EXCEPT ![p] = <<>>]
    /\ seen' = [seen EXCEPT ![p] = <<>>]
    /\ new_items' = [new_items EXCEPT ![p] = <<>>]
    /\ todo' = [todo EXCEPT ![p] = <<>>]
    /\ buf' = [buf EXCEPT ![p] = <<>>]
    /\ pos' = [pos EXCEPT ![p] = 0]
    /\ sent' = [sent EXCEPT ![p] = <<>>]
    /\ pre' = [pre EXCEPT ![p] = disk]
    /\ raised' = [raised EXCEPT ![p] = "none"]
    /\ pred' = [pred EXCEPT ![p] = last]
    /\ overlapped' = (overlapped \/ \E q \in Procs \ {p} : status[q] = "running")
    /\ prior' = [prior EXCEPT ![p] =
                    IF status[p] \in {"killed", "error"} /\ pc[p] = "notify" /\ sent[p] # <<>>
                    THEN [crashed |-> TRUE, html |-> html[p],
                          hrefs |-> {sent[p][i][1] : i \in 1..Len(sent[p])}]
                    ELSE NoPrior]
    /\ UNCHANGED <<tabVars, script, site, mail, disk, last, attempted, reattempted, saved, aborted,
                   dry_saved, redelivered>>

\* python demonstrate.py, under the KEYWORDS of the environment at the last launch
Launch(p) ==
    /\ Start(p)
    /\ UNCHANGED KEYWORDS

\* python demonstrate.py, the KEYWORDS variable of the environment read anew
LaunchKw(p) ==
    /\ Start(p)
    /\ \E raw \in KeywordSettings : KEYWORDS' = parse_keywords(raw)

\* html = fetch_page(BASE_URL) returns the document
fetch_page(p) ==
    /\ status[p] = "running" /\ pc[p] = "fetch"
    /\ html' = [html EXCEPT ![p] = site]
    /\ pc' = [pc EXCEPT ![p] = "parse"]
    /\ UNCHANGED <<tabVars, script, KEYWORDS, site, mail, disk, now, status, tenders,
                   relevant, seen, new_items, todo, buf, pos, histVars>>

\* variant: an error of fetch_page is swallowed and the run goes on with an empty document
FetchSwallowed(p) ==
    /\ status[p] = "running" /\ pc[p] = "fetch"
    /\ raised' = [raised EXCEPT ![p] = "RequestException"]
    /\ pc' = [pc EXCEPT ![p] = "parse"]
    /\ UNCHANGED <<tabVars, script, KEYWORDS, site, mail, disk, now, status, html, tenders,
                   relevant, seen, new_items, todo, buf, pos, sent, pre, prior, dry_saved, redelivered, pred, last, attempted,
                   reattempted, saved, aborted, overlapped>>

\* requests.get or raise_for_status raises in fetch_page: main does not catch it
FetchRaises(p) ==
    /\ status[p] = "running" /\ pc[p] = "fetch"
    /\ Ended(p, "error", disk)
    /\ raised' = [raised EXCEPT ![p] = "RequestException"]
    /\ UNCHANGED <<tabVars, script, KEYWORDS, site, mail, disk, now, pc, html, tenders,
                   relevant, seen, new_items, todo, buf, pos, sent, pre, prior, dry_saved, redelivered, pred, attempted,
                   reattempted, saved, overlapped>>

\* tenders = parse_tenders(html, BASE_URL)
Parse(p) ==
    /\ status[p] = "running" /\ pc[p] = "parse"
    /\ tenders' = [tenders EXCEPT ![p] = parse_tenders(html[p], BASE_URL)]
    /\ pc' = [pc EXCEPT ![p] = "filter"]
    /\ UNCHANGED <<tabVars, script, KEYWORDS, site, mail, disk, now, status, html, relevant, seen,
                   new_items, todo, buf, pos, histVars>>

\* relevant = [t for t in tenders if is_relevant(t["title"], KEYWORDS)]
Filter(p) ==
    /\ status[p] = "running" /\ pc[p] = "filter"
    /\ relevant' = [relevant EXCEPT ![p] = filter_relevant(tenders[p], KEYWORDS)]
    /\ pc' = [pc EXCEPT ![p] = "load"]
    /\ UNCHANGED <<tabVars, script, KEYWORDS, site, mail, disk, now, status, html, tenders, seen,
                   new_items, todo, buf, pos, histVars>>

\* seen = load_seen(SEEN_FILE) and the loop that builds new_items
Load(p) ==
    /\ status[p] = "running" /\ pc[p] = "load"
    /\ LET r == load_seen(disk)
       IN  \/ /\ ~r.raised
              /\ seen' = [seen EXCEPT ![p] = r.value]
              /\ new_items' = [new_items EXCEPT ![p] = diff_new(relevant[p], r.value)]
              /\ todo' = [todo EXCEPT ![p] = diff_new(relevant[p], r.value)]
              /\ pc' = [pc EXCEPT ![p] = "notify"]
              /\ UNCHANGED <<status, last, aborted, raised>>
           \/ /\ r.raised
              /\ Ended(p, "error", disk)
              /\ raised' = [raised EXCEPT ![p] = "JSONDecodeError"]
              /\ UNCHANGED <<seen, new_items, todo, pc>>
    /\ UNCHANGED <<tabVars, script, KEYWORDS, site, mail, disk, now, html, tenders, relevant, buf, pos,
                   sent, pre, prior, dry_saved, redelivered, pred, attempted, reattempted, saved, overlapped>>

\* variant: the file is rewritten after every item
NotifySaving(p) ==
    /\ status[p] = "running" /\ pc[p] = "notify" /\ todo[p] # <<>>
    /\ LET t == Head(todo[p])
       IN  \E ok \in send_email_smtp(mail) :
              /\ seen' = [seen EXCEPT ![p] = mark_seen(seen[p], t, ok, now)]
              /\ sent' = [sent EXCEPT ![p] = Append(sent[p], <<t.href, ok, mail.DRY_RUN>>)]
              /\ redelivered' = IF ~mail.DRY_RUN /\ t.href \in dry_saved
                                THEN redelivered \cup {t.href} ELSE redelivered
              /\ attempted' = attempted \cup {t.href}
              /\ reattempted' = IF t.href \in attempted THEN reattempted \cup {t.href}
                                ELSE reattempted
    /\ disk' = [exists |-> TRUE, text |-> json_dump(seen'[p])]
    /\ todo' = [todo EXCEPT ![p] = Tail(todo[p])]
    /\ UNCHANGED <<tabVars, script, KEYWORDS, site, mail, now, status, pc, html, tenders,
                   relevant, new_items, buf, pos, pre, prior, dry_saved, raised, pred, last, saved, aborted,
                   overlapped>>

\* one iteration of  for t in new_items:  send_email_smtp, then seen[t["href"]] = {...}
Notify(p) ==
    /\ status[p] = "running" /\ pc[p] = "notify" /\ todo[p] # <<>>
    /\ LET t == Head(todo[p])
       IN  \E ok \in send_email_smtp(mail) :
              /\ seen' = [seen EXCEPT ![p] = mark_seen(seen[p], t, ok, now)]
              /\ sent' = [sent EXCEPT ![p] = Append(sent[p], <<t.href, ok, mail.DRY_RUN>>)]
              /\ redelivered' = IF ~mail.DRY_RUN /\ t.href \in dry_saved
                                THEN redelivered \cup {t.href} ELSE redelivered
              /\ attempted' = attempted \cup {t.href}
              /\ reattempted' = IF t.href \in attempted THEN reattempted \cup {t.href}
                                ELSE reattempted
    /\ todo' = [todo EXCEPT ![p] = Tail(todo[p])]
    /\ UNCHANGED <<tabVars, script, KEYWORDS, site, mail, disk, now, status, pc, html, tenders, relevant,
                   new_items, buf, pos, pre, prior, dry_saved, raised, pred, last, saved, aborted, overlapped>>

\* variant: save_seen writes the entries of this run's new items only
SaveOpenNewOnly(p) ==
    /\ status[p] = "running" /\ pc[p] = "notify" /\ todo[p] = <<>>
    /\ disk' = [exists |-> TRUE, text |-> <<>>]
    /\ buf' = [buf EXCEPT ![p] =
                  json_dump(SelectSeq(seen[p], LAMBDA e :
                      \E i \in 1..Len(new_items[p]) : new_items[p][i].href = e[1]))]
    /\ pos' = [pos EXCEPT ![p] = 0]
    /\ pc' = [pc EXCEPT ![p] = "write"]
    /\ UNCHANGED <<tabVars, script, KEYWORDS, site, mail, now, status, html, tenders,
                   relevant, seen, new_items, todo, histVars>>

\* save_seen: open(path, "w") truncates the file
SaveOpen(p) ==
    /\ status[p] = "running" /\ pc[p] = "notify" /\ todo[p] = <<>>
    /\ disk' = [exists |-> TRUE, text |-> <<>>]
    /\ buf' = [buf EXCEPT ![p] = json_dump(seen[p])]
    /\ pos' = [pos EXCEPT ![p] = 0]
    /\ pc' = [pc EXCEPT ![p] = "write"]
    /\ UNCHANGED <<tabVars, script, KEYWORDS, site, mail, now, status, html, tenders,
                   relevant, seen, new_items, todo, histVars>>

\* save_seen: open(path, "w") raises and leaves the file; main does not catch it
SaveOpenRaises(p) ==
    /\ status[p] = "running" /\ pc[p] = "notify" /\ todo[p] = <<>>
    /\ Ended(p, "error", disk)
    /\ raised' = [raised EXCEPT ![p] = "OSError"]
    /\ UNCHANGED <<tabVars, script, KEYWORDS, site, mail, disk, now, pc, html, tenders,
                   relevant, seen, new_items, todo, buf, pos, sent, pre, prior, dry_saved, redelivered, pred, attempted,
                   reattempted, saved, overlapped>>

\* save_seen: json.dump writes the next chunk; after the last one the file is
\* closed and main returns
SaveWrite(p) ==
    /\ status[p] = "running" /\ pc[p] = "write"
    /\ disk' = [disk EXCEPT !.text = write_at(@, pos[p], Head(buf[p]))]
    /\ buf' = [buf EXCEPT ![p] = Tail(buf[p])]
    /\ pos' = [pos EXCEPT ![p] = pos[p] + 1]
    /\ IF Len(buf[p]) = 1
       THEN /\ Ended(p, "done", disk')
            /\ pc' = [pc EXCEPT ![p] = "end"]
            /\ saved' = saved \cup keys(seen[p])
            /\ dry_saved' = IF mail.DRY_RUN
                            THEN dry_saved \cup {sent[p][i][1] : i \in 1..Len(sent[p])}
                            ELSE dry_saved
       ELSE UNCHANGED <<status, last, aborted, pc, saved, dry_saved>>
    /\ UNCHANGED <<tabVars, script, KEYWORDS, site, mail, now, html, tenders, relevant,
                   seen, new_items, todo, sent, pre, prior, redelivered, raised, pred, attempted,
                   reattempted, overlapped>>

\* save_seen: a write raises, the file keeps what was written; main does not catch it
SaveWriteRaises(p) ==
    /\ status[p] = "running" /\ pc[p] = "write"
    /\ Ended(p, "error", disk)
    /\ raised' = [raised EXCEPT ![p] = "OSError"]
    /\ UNCHANGED <<tabVars, script, KEYWORDS, site, mail, disk, now, pc, html, tenders,
                   relevant, seen, new_items, todo, buf, pos, sent, pre, prior, dry_saved, redelivered, pred, attempted,
                   reattempted, saved, overlapped>>

\* the process is killed (a signal, a power loss) wherever it is
Interrupt(p) ==
    /\ status[p] = "running"
    /\ Ended(p, "killed", disk)
    /\ UNCHANGED <<tabVars, script, KEYWORDS, site, mail, disk, now, pc, html, tenders, relevant, seen,
                   new_items, todo, buf, pos, sent, pre, prior, dry_saved, redelivered, raised, pred, attempted, reattempted, saved,
                   overlapped>>

\* the errors main does not catch
raises(p) ==
    \/ FetchRaises(p)
    \/ SaveOpenRaises(p)
    \/ SaveWriteRaises(p)

\* the statements of main
main(p) ==
    \/ fetch_page(p)
    \/ Parse(p)
    \/ Filter(p)
    \/ Load(p)
    \/ Notify(p)
    \/ SaveOpen(p)
    \/ SaveWrite(p)

\* ---------------------------------------------------- demonstration.py main

anchorVars == <<disk, site, mail, runVars, histVars>>

\* python demonstration.py
TabLaunch ==
    /\ script = "demonstration"
    /\ tstatus # "running"
    /\ now < MaxRuns
    /\ now' = now + 1
    /\ tstatus' = "running"
    /\ tpc' = "init_db"
    /\ rows' = <<>>
    /\ txn' = <<>>
    /\ new_count' = 0
    /\ processed' = 0
    /\ caught' = FALSE
    /\ judged' = <<>>
    /\ tpre' = db
    /\ UNCHANGED <<script, KEYWORDS, db, anchorVars>>

\* conn = init_db(): outside the try of main, so an error ends the run
init_db ==
    /\ tstatus = "running" /\ tpc = "init_db"
    /\ \/ tpc' = "get_driver" /\ UNCHANGED tstatus
       \/ tstatus' = "error" /\ UNCHANGED tpc
    /\ UNCHANGED <<script, KEYWORDS, now, rows, db, tpre, txn, new_count, processed, caught,
                   judged, anchorVars>>

\* the except and the finally of main: the error is printed, conn is closed
\* (what is not committed is lost) and the process exits 0
TabCaught ==
    /\ caught' = TRUE
    /\ txn' = <<>>
    /\ tstatus' = "done"

\* driver = get_driver(visible=True)
get_driver ==
    /\ tstatus = "running" /\ tpc = "get_driver"
    /\ \/ tpc' = "open" /\ UNCHANGED <<tstatus, caught, txn>>
       \/ TabCaught /\ UNCHANGED tpc
    /\ UNCHANGED <<script, KEYWORDS, now, rows, db, tpre, new_count, processed, judged, anchorVars>>

\* scrape_latest_tenders up to its loop: driver.get(url), input(), the parse
\* and the choice of rows
TabOpen ==
    /\ tstatus = "running" /\ tpc = "open"
    /\ \/ /\ \E page \in TabPages : rows' = select_rows(page)
          /\ tpc' = "rows"
          /\ UNCHANGED <<tstatus, caught, txn>>
       \/ TabCaught /\ UNCHANGED <<tpc, rows>>
    /\ UNCHANGED <<script, KEYWORDS, now, db, tpre, new_count, processed, judged, anchorVars>>

\* the row last reached by the loop: its cells, the fields read from it, the
\* verdict, what became of it, and the counters and the table before it
Judged(row, f, hit, outcome) ==
    <<[tds |-> row.tds, tender_id |-> f.tender_id, title |-> f.title,
       organisation |-> f.organisation, closing_date |-> f.closing_date, link |-> f.link,
       extra_text |-> f.extra_text, relevant |-> hit, outcome |-> outcome,
       before |-> [db |-> db, txn |-> txn, processed |-> processed,
                   new_count |-> new_count]]>>

\* one iteration of  for row in rows
TabRow ==
    /\ tstatus = "running" /\ tpc = "rows" /\ rows # <<>>
    /\ rows' = Tail(rows)
    /\ LET row == Head(rows)
           f == row_fields(row)
           hit == is_relevant_tender(f.title, f.organisation, f.extra_text, KEYWORDS)
       IN  IF row.tds = <<>>
           THEN /\ judged' = Judged(row, f, FALSE, "no_cells")
                /\ UNCHANGED <<db, txn, new_count, processed>>
           ELSE /\ processed' = processed + 1
                /\ IF ~hit
                   THEN /\ judged' = Judged(row, f, hit, "skipped")
                        /\ UNCHANGED <<db, txn, new_count>>
                   ELSE \/ \* sqlite3.IntegrityError: the tender_id is in the table
                           /\ has_key(db \o txn, db_key(f))
                           /\ judged' = Judged(row, f, hit, "exists")
                           /\ UNCHANGED <<db, txn, new_count>>
                        \/ \* the INSERT and the commit succeed
                           /\ ~has_key(db \o txn, db_key(f))
                           /\ db' = db \o Append(txn, <<db_key(f), db_row(f, now)>>)
                           /\ txn' = <<>>
                           /\ new_count' = new_count + 1
                           /\ judged' = Judged(row, f, hit, "added")
                        \/ \* the INSERT succeeds, conn.commit() raises: except Exception
                           /\ ~has_key(db \o txn, db_key(f))
                           /\ txn' = Append(txn, <<db_key(f), db_row(f, now)>>)
                           /\ judged' = Judged(row, f, hit, "error")
                           /\ UNCHANGED <<db, new_count>>
                        \/ \* the INSERT raises another error: except Exception
                           /\ judged' = Judged(row, f, hit, "error")
                           /\ UNCHANGED <<db, txn, new_count>>
    /\ UNCHANGED <<script, KEYWORDS, now, tstatus, tpc, tpre, caught, anchorVars>>

\* the loop is over: the summary is printed, conn is closed and the process exits 0
TabFinish ==
    /\ tstatus = "running" /\ tpc = "rows" /\ rows = <<>>
    /\ tstatus' = "done"
    /\ tpc' = "end"
    /\ txn' = <<>>
    /\ UNCHANGED <<script, KEYWORDS, now, rows, db, tpre, new_count, processed, caught, judged,
                   anchorVars>>

\* the process is killed wherever it is: what is not committed is lost
TabInterrupt ==
    /\ tstatus = "running"
    /\ tstatus' = "killed"
    /\ txn' = <<>>
    /\ UNCHANGED <<script, KEYWORDS, now, tpc, rows, db, tpre, new_count, processed, caught,
                   judged, anchorVars>>

\* the statements of main and scrape_latest_tenders
tab_main ==
    \/ init_db
    \/ get_driver
    \/ TabOpen
    \/ TabRow
    \/ TabFinish

\* the runs of the script, launched one at a time, any of which may be killed
Next ==
    \/ Publish
    \/ Configure
    \/ \E p \in Serial : Launch(p) \/ main(p) \/ raises(p) \/ Interrupt(p)
    \/ TabLaunch
    \/ tab_main
    \/ TabInterrupt

Spec == Init /\ [][Next]_vars

\* two runs against one site, each launched once with no regard for the other,
\* under the mail setting in which a delivery can succeed and can fail
InitConc ==
    /\ Init
    /\ mail = [DRY_RUN |-> FALSE, smtp_configured |-> TRUE]

NextConc ==
    \/ PublishDuring
    \/ \E p \in Procs : (status[p] = "idle" /\ Launch(p)) \/ main(p)

SpecConc == InitConc /\ [][NextConc]_vars

\* runs of demonstrate.py launched one at a time and left to complete, each
\* reading KEYWORDS from the environment it is started in, under the mail
\* setting in which a delivery can succeed and can fail
InitKw ==
    /\ Init
    /\ script = "demonstrate"
    /\ mail = [DRY_RUN |-> FALSE, smtp_configured |-> TRUE]

NextKw ==
    \/ Publish
    \/ \E p \in Serial : LaunchKw(p) \/ main(p)

SpecKw == InitKw /\ [][NextKw]_vars

\* ------------------------------------------------------------- properties

\* the mapping a file holds (empty when there is no file or json.load rejects it)
StoreOf(file) == load_seen(file).value

\* json.load rejects the file
Malformed(file) == file.exists /\ json_load(file.text).raised

\* the statements of main before save_seen
BeforeSave == {"fetch", "parse", "filter", "load", "notify"}

\* the statements of main after the keyword filter
AfterFilter == {"load", "notify", "write", "end"}

\* keyword k is a case-insensitive substring of text s
CaseInsensitiveIn(k, s) ==
    \E i \in 0..(Len(s) - Len(k)) :
        \A j \in 1..Len(k) : LowerChar(s[i + j]) = LowerChar(k[j])

SomeKeywordIn(s) == \E i \in 1..Len(KEYWORDS) : CaseInsensitiveIn(KEYWORDS[i], s)

\* the title of an anchor record followed by its secondary fields date and snippet
AllFields(t) ==
    t.title \o <<" ">> \o (IF t.date = <<>> THEN <<>> ELSE t.date[1]) \o <<" ">> \o t.snippet

InSeq(x, s) == \E i \in 1..Len(s) : s[i] = x

\* C1: a completed run against the document of the run that completed before
\* it, launched on the file that run left, calls send_email_smtp for nothing
\* and leaves the file as it found it.
C1_Idempotence ==
    \A p \in Procs :
        (status[p] = "done" /\ pred[p].ran /\ html[p] = pred[p].html /\ pre[p] = pred[p].disk)
            => (sent[p] = <<>> /\ disk = pre[p])

\* a second run over the same document completes, and the document has
\* relevant records, all of them stored by the first run
C1_Witness ==
    \E p \in Procs :
        /\ status[p] = "done" /\ pred[p].ran /\ html[p] = pred[p].html
        /\ pre[p] = pred[p].disk
        /\ relevant[p] # <<>>
        /\ \E k \in keys(StoreOf(pre[p])) : ~get(StoreOf(pre[p]), k).notified

\* C2: while a run has not reached save_seen (it is running, has raised or was
\* killed at a statement before it), the file equals the file the run was
\* launched on.
C2_NoPartialPersist ==
    \A p \in Procs :
        (status[p] # "idle" /\ pc[p] \in BeforeSave) => disk = pre[p]

\* a run on a store that holds an entry is killed after a delivery attempt
C2_Witness ==
    \E p \in Procs :
        /\ status[p] = "killed" /\ pc[p] = "notify"
        /\ sent[p] # <<>>
        /\ StoreOf(pre[p]) # <<>>

\* C3: a completed run has called send_email_smtp once for each new item, in
\* order, and the file holds each new item with notified equal to what its
\* own call returned.
C3_FailureIsolation ==
    \A p \in Procs :
        status[p] = "done" =>
            /\ Len(sent[p]) = Len(new_items[p])
            /\ \A i \in 1..Len(new_items[p]) :
                  /\ sent[p][i][1] = new_items[p][i].href
                  /\ has_key(StoreOf(disk), new_items[p][i].href)
                  /\ get(StoreOf(disk), new_items[p][i].href).notified = sent[p][i][2]

\* a completed run in which a delivery failed and a later one succeeded
C3_Witness ==
    \E p \in Procs :
        /\ status[p] = "done"
        /\ \E i, j \in 1..Len(sent[p]) : i < j /\ ~sent[p][i][2] /\ sent[p][j][2]

\* C4: as long as every run launched one at a time has completed,
\* send_email_smtp has been called at most once for any identity.
C4_AtMostOneAttempt ==
    ~aborted => reattempted = {}

\* the second of two completed runs meets, under another title, an identity
\* whose only delivery attempt failed, and does not attempt it
C4_Witness ==
    \E p \in Procs :
        /\ ~aborted /\ status[p] = "done" /\ now = MaxRuns
        /\ \E i \in 1..Len(relevant[p]) :
              LET t == relevant[p][i]
              IN  /\ has_key(StoreOf(pre[p]), t.href)
                  /\ ~get(StoreOf(pre[p]), t.href).notified
                  /\ get(StoreOf(pre[p]), t.href).title # t.title
                  /\ \A j \in 1..Len(sent[p]) : sent[p][j][1] # t.href

\* C5: after a completed run every key the file held at launch is in the
\* file with the value it had, and the keys added are the identities of the
\* run's relevant records that the file did not hold.
C5_WriteOnce ==
    \A p \in Procs :
        status[p] = "done" =>
            LET old == StoreOf(pre[p])
                new == StoreOf(disk)
            IN  /\ ~Malformed(disk)
                /\ \A k \in keys(old) : has_key(new, k) /\ get(new, k) = get(old, k)
                /\ keys(new) \ keys(old)
                      = {relevant[p][i].href : i \in 1..Len(relevant[p])} \ keys(old)

\* a completed run meets a stored identity under another title and adds a key
C5_Witness ==
    \E p \in Procs :
        /\ status[p] = "done"
        /\ keys(StoreOf(disk)) \ keys(StoreOf(pre[p])) # {}
        /\ \E i \in 1..Len(relevant[p]) :
              /\ has_key(StoreOf(pre[p]), relevant[p][i].href)
              /\ get(StoreOf(pre[p]), relevant[p][i].href).title # relevant[p][i].title

\* C6: a run killed at any point leaves the file either as it was at launch
\* or holding the complete updated mapping, and never one json.load rejects.
C6_AtomicSave ==
    \A p \in Procs :
        status[p] = "killed" =>
            /\ disk = pre[p] \/ disk = [exists |-> TRUE, text |-> json_dump(seen[p])]
            /\ ~Malformed(disk)

\* an entry a completed save_seen wrote is missing from the file no run is writing
LostEntry ==
    /\ \A p \in Procs : status[p] # "running"
    /\ ~Malformed(disk)
    /\ \E k \in saved : ~has_key(StoreOf(disk), k)

\* C7: unless a run was launched while another was running, send_email_smtp
\* is called at most once per identity and no entry a run saved is missing
\* from the final file.
C7_SerializedSafe ==
    ~overlapped => (reattempted = {} /\ ~LostEntry)

\* two overlapping runs have both called send_email_smtp for one identity, and
\* the save that came last has dropped a key the other run saved
C7_Race ==
    /\ overlapped
    /\ \A p \in Procs : status[p] = "done"
    /\ reattempted # {}
    /\ LostEntry

\* C8: a run launched on a file json.load rejects never gets past load_seen:
\* it calls send_email_smtp for nothing, does not complete, and the file stays
\* as it was; load_seen raises for such a file only, so a run with no file goes on.
C8_MalformedIsFatal ==
    \A p \in Procs :
        /\ (status[p] # "idle" /\ Malformed(pre[p])) =>
              /\ pc[p] \in {"fetch", "parse", "filter", "load"}
              /\ sent[p] = <<>>
              /\ disk = pre[p]
              /\ raised[p] \in {"none", "RequestException", "JSONDecodeError"}
        /\ raised[p] = "JSONDecodeError" =>
              (status[p] = "error" /\ pc[p] = "load" /\ Malformed(pre[p]))

\* load_seen has raised in a run whose document holds relevant records
C8_Witness ==
    \E p \in Procs :
        /\ raised[p] = "JSONDecodeError" /\ status[p] = "error"
        /\ Malformed(pre[p])
        /\ relevant[p] # <<>>

\* C9: a run in which fetch_page raised has ended with an uncaught exception
\* at that statement, having extracted, loaded, sent and written nothing.
C9_FetchFailureIsFatal ==
    \A p \in Procs :
        raised[p] = "RequestException" =>
            /\ status[p] = "error" /\ pc[p] = "fetch"
            /\ html[p] = <<>> /\ tenders[p] = <<>> /\ relevant[p] = <<>>
            /\ seen[p] = <<>> /\ sent[p] = <<>> /\ buf[p] = <<>>
            /\ disk = pre[p]

\* fetch_page has raised in a run launched on a store that holds an entry,
\* while the site serves a record that would be new
C9_Witness ==
    \E p \in Procs :
        /\ raised[p] = "RequestException" /\ status[p] = "error"
        /\ StoreOf(pre[p]) # <<>>
        /\ diff_new(filter_relevant(parse_tenders(site, BASE_URL), KEYWORDS), StoreOf(disk)) # <<>>

\* C10 as stated: in both pipelines a record is relevant iff some keyword is a
\* case-insensitive substring of its title and secondary fields together.
C10_AllFieldsRelevance ==
    /\ \A p \in Procs :
          pc[p] \in AfterFilter =>
              \A i \in 1..Len(tenders[p]) :
                  InSeq(tenders[p][i], relevant[p]) <=> SomeKeywordIn(AllFields(tenders[p][i]))
    /\ judged # <<>> =>
          (judged[1].relevant <=>
              SomeKeywordIn(judged[1].title \o <<" ">> \o judged[1].organisation
                            \o <<" ">> \o judged[1].extra_text))

\* C10 as amended: the tabular pipeline searches title, organisation and
\* extra_text together; the anchor pipeline searches the title alone, so when
\* the filter has run the relevant records are those with a keyword in the
\* title, and only relevant records are notified.
C10_TitleOnlyRelevance ==
    /\ \A p \in Procs :
          /\ pc[p] = "load" =>
                \A i \in 1..Len(tenders[p]) :
                    InSeq(tenders[p][i], relevant[p]) <=> SomeKeywordIn(tenders[p][i].title)
          /\ pc[p] \in AfterFilter =>
                \A j \in 1..Len(sent[p]) :
                    \E i \in 1..Len(relevant[p]) : relevant[p][i].href = sent[p][j][1]
    /\ judged # <<>> =>
          (judged[1].relevant <=>
              SomeKeywordIn(judged[1].title \o <<" ">> \o judged[1].organisation
                            \o <<" ">> \o judged[1].extra_text))

\* a completed run has left out a new record whose snippet holds a keyword
\* and whose title holds none, while notifying a record matched by upper case
C10_Witness ==
    \E p \in Procs :
        /\ status[p] = "done"
        /\ \E i \in 1..Len(tenders[p]) :
              /\ SomeKeywordIn(tenders[p][i].snippet)
              /\ ~SomeKeywordIn(tenders[p][i].title)
              /\ ~InSeq(tenders[p][i], relevant[p])
              /\ ~has_key(StoreOf(disk), tenders[p][i].href)
        /\ \E j \in 1..Len(sent[p]) : \E i \in 1..Len(relevant[p]) :
              /\ relevant[p][i].href = sent[p][j][1]
              /\ relevant[p][i].title # lower(relevant[p][i].title)

\* the rows of the table whose link column equals that of fields f ("" for None)
SameLink(table, f) == \E i \in 1..Len(table) : table[i][2].link = f.link

\* C11: until a run of demonstration.py has processed all its rows (it is in
\* the loop, has failed or was killed before the loop ended), the committed
\* table equals the table at launch.
C11_PersistOnce ==
    (tstatus # "idle" /\ tpc # "end") => db = tpre

\* C12 as stated: a relevant row whose INSERT does not fail is stored iff no
\* stored row has the same link, the empty string standing for no hyperlink.
C12_LinkIdentity ==
    (judged # <<>> /\ judged[1].relevant /\ judged[1].outcome # "error") =>
        LET j == judged[1]
        IN  (j.outcome = "added") <=> ~SameLink(j.before.db \o j.before.txn, j)

\* C12 as amended: a relevant row whose INSERT does not fail is stored iff no
\* stored row has the same tender_id (the text of its first cell), whatever
\* the links; the row is then in the table under that tender_id, with its
\* link as a plain column.
C12_TenderIdIdentity ==
    (judged # <<>> /\ judged[1].relevant /\ judged[1].outcome # "error") =>
        LET j == judged[1]
            held == has_key(j.before.db \o j.before.txn, j.tender_id)
        IN  /\ (j.outcome = "added") <=> ~held
            /\ (j.outcome = "exists") <=> held
            /\ j.outcome = "added" =>
                  /\ has_key(db, j.tender_id)
                  /\ get(db, j.tender_id).link = j.link
                  /\ Len(db) = Len(j.before.db) + Len(j.before.txn) + 1

\* the table holds two rows without a hyperlink, and a relevant row was
\* refused although no stored row has its link
C12_Witness ==
    /\ \E i, k \in 1..Len(db) : i # k /\ db[i][2].link = <<>> /\ db[k][2].link = <<>>
    /\ judged # <<>> /\ judged[1].relevant /\ judged[1].outcome = "exists"
    /\ judged[1].link # <<>>
    /\ ~SameLink(judged[1].before.db \o judged[1].before.txn, judged[1])

\* C13: a run in which a write of the store failed (save_seen raised; an INSERT
\* or commit failed for a reason other than the key) has ended in an error.
C13_WriteFailureIsFatal ==
    /\ \A p \in Procs : raised[p] = "OSError" => status[p] = "error"
    /\ (judged # <<>> /\ judged[1].outcome = "error") => tstatus = "error"

\* the cells of a row, joined by blanks
CellsText(tds) == join(tds)

\* C17: a row with no cells changes neither the counters nor the table; for
\* a row with cells, a field whose column the row lacks is the empty string,
\* the run has raised nothing, the row counts as processed, it is relevant
\* iff a keyword occurs in its remaining text, and when it is relevant, new
\* and its INSERT does not fail it is stored.
C17_ShortRows ==
    judged # <<>> =>
        LET j == judged[1]
            n == Len(j.tds)
        IN  IF n = 0
            THEN /\ j.outcome = "no_cells"
                 /\ db = j.before.db
                 /\ processed = j.before.processed
                 /\ new_count = j.before.new_count
            ELSE /\ j.tender_id = j.tds[1]
                 /\ j.title = (IF n >= 2 THEN j.tds[2] ELSE <<>>)
                 /\ j.organisation = (IF n >= 3 THEN j.tds[3] ELSE <<>>)
                 /\ j.closing_date = (IF n >= 5 THEN j.tds[5] ELSE <<>>)
                 /\ ~caught /\ tstatus # "error"
                 /\ processed = j.before.processed + 1
                 /\ j.relevant <=>
                       SomeKeywordIn(j.title \o <<" ">> \o j.organisation \o <<" ">>
                                     \o CellsText(j.tds))
                 /\ j.outcome # "no_cells"
                 /\ (j.relevant /\ j.outcome # "error"
                        /\ ~has_key(j.before.db \o j.before.txn, j.tender_id)) =>
                       (has_key(db, j.tender_id) /\ new_count = j.before.new_count + 1)
                 /\ ~j.relevant => (db = j.before.db /\ new_count = j.before.new_count)

\* a row of one cell was found relevant by that cell and stored with empty
\* title, organisation and closing_date
C17_Witness ==
    /\ judged # <<>> /\ Len(judged[1].tds) = 1
    /\ judged[1].relevant /\ judged[1].outcome = "added"
    /\ has_key(db, judged[1].tender_id)
    /\ get(db, judged[1].tender_id).title = <<>>
    /\ get(db, judged[1].tender_id).closing_date = <<>>

\* the anchors of document h that open a record: the text has at least 6
\* characters and no earlier such anchor resolves to the same address
FirstAnchors(h) ==
    LET long(i) == Len(h[i].text) >= 6
        addr(i) == urljoin(BASE_URL, h[i].href)
        first(i) == long(i) /\ \A k \in 1..(i - 1) : long(k) => addr(k) # addr(i)
    IN  SelectSeq([i \in 1..Len(h) |-> i], first)

\* C14: when parse_tenders has returned, its records are, in document order,
\* one per distinct resolved href among the anchors whose text has at least 6
\* characters, each with the title, date and snippet of the first such anchor.
C14_DedupByIdentity ==
    \A p \in Procs :
        pc[p] = "filter" =>
            LET h == html[p]
                idx == FirstAnchors(h)
            IN  /\ Len(tenders[p]) = Len(idx)
                /\ \A k \in 1..Len(idx) :
                      LET a == h[idx[k]]
                          t == tenders[p][k]
                          near == DATE_RE_search(a.parent_text)
                      IN  /\ t.href = urljoin(BASE_URL, a.href)
                          /\ t.title = a.text
                          /\ t.snippet = Take(strip(remove(a.parent_text, a.text)), 300)
                          /\ t.date = (IF near # <<>> THEN near
                                       ELSE DATE_RE_search(content_text(h)))
                /\ \A i, k \in 1..Len(tenders[p]) :
                      tenders[p][i].href = tenders[p][k].href => i = k

\* a document with a short anchor and with two long anchors of one resolved
\* href and different titles has been parsed into the record of the first
C14_Witness ==
    \E p \in Procs :
        /\ pc[p] = "filter"
        /\ \E i \in 1..Len(html[p]) : Len(html[p][i].text) < 6
        /\ \E i, k \in 1..Len(html[p]) :
              /\ i < k
              /\ Len(html[p][i].text) >= 6 /\ Len(html[p][k].text) >= 6
              /\ html[p][i].href # html[p][k].href
              /\ html[p][i].text # html[p][k].text
              /\ urljoin(BASE_URL, html[p][i].href) = urljoin(BASE_URL, html[p][k].href)
              /\ \E n \in 1..Len(tenders[p]) : tenders[p][n].title = html[p][i].text
        /\ Len(tenders[p]) < Len(html[p]) - 1

\* C15: a run under an empty keyword list finds nothing relevant, calls
\* send_email_smtp for nothing, and when it completes the file holds the
\* mapping the run loaded.
C15_EmptyKeywords ==
    \A p \in Procs :
        (status[p] # "idle" /\ KEYWORDS = <<>>) =>
            /\ relevant[p] = <<>> /\ new_items[p] = <<>> /\ sent[p] = <<>>
            /\ status[p] = "done" =>
                  (~Malformed(disk) /\ StoreOf(disk) = StoreOf(pre[p]))

\* a run under an empty keyword list has completed on a document with
\* records and on a store that holds entries
C15_Witness ==
    \E p \in Procs :
        /\ status[p] = "done" /\ KEYWORDS = <<>>
        /\ tenders[p] # <<>>
        /\ StoreOf(pre[p]) # <<>>

\* the records of run p whose title holds a keyword and whose identity the
\* file at launch does not hold, in extraction order
ExpectedNew(p) ==
    SelectSeq(tenders[p],
              LAMBDA t : SomeKeywordIn(t.title) /\ ~has_key(StoreOf(pre[p]), t.href))

\* C16: no call of send_email_smtp precedes load_seen and the file is not
\* written before the last call; a completed run has called send_email_smtp
\* once for each relevant record absent from the loaded store, in extraction
\* order, and for no other, and the file holds the loaded mapping followed
\* by one entry per call.
C16_RunOrdering ==
    \A p \in Procs :
        /\ (status[p] # "idle" /\ pc[p] \in {"fetch", "parse", "filter", "load"}) =>
              (sent[p] = <<>> /\ disk = pre[p])
        /\ (status[p] # "idle" /\ pc[p] = "notify") => disk = pre[p]
        /\ pc[p] \in {"write", "end"} => (todo[p] = <<>> /\ Len(sent[p]) = Len(new_items[p]))
        /\ status[p] = "done" =>
              LET new == ExpectedNew(p)
              IN  /\ Len(sent[p]) = Len(new)
                  /\ \A i \in 1..Len(new) : sent[p][i][1] = new[i].href
                  /\ ~Malformed(disk)
                  /\ StoreOf(disk) = StoreOf(pre[p]) \o
                        [i \in 1..Len(new) |->
                            <<new[i].href,
                              [title |-> new[i].title, date |-> new[i].date,
                               notified |-> sent[p][i][2], first_seen_utc |-> now]>>]

\* a completed run on a store that holds an entry has left out a relevant
\* record the store held and a record without a keyword, and has called
\* send_email_smtp for two new records
C16_Witness ==
    \E p \in Procs :
        /\ status[p] = "done"
        /\ Len(sent[p]) >= 2
        /\ \E i \in 1..Len(relevant[p]) : has_key(StoreOf(pre[p]), relevant[p][i].href)
        /\ Len(relevant[p]) < Len(tenders[p])

\* the identities run p has called send_email_smtp for
SentTo(p) == {sent[p][i][1] : i \in 1..Len(sent[p])}

\* C18: a run that ended between a call of send_email_smtp and save_seen has
\* left the identities it called for out of the file; the next run, when it
\* completes on the same document, calls send_email_smtp for each of them
\* again; and with runs launched one at a time an identity gets a second
\* call only after some run ended without completing.
C18_CrashRenotifies ==
    /\ \A p \in Procs :
          /\ (status[p] \in {"killed", "error"} /\ pc[p] \in BeforeSave) =>
                (disk = pre[p] /\ SentTo(p) \cap keys(StoreOf(disk)) = {})
          /\ (status[p] = "done" /\ prior[p].crashed /\ html[p] = prior[p].html) =>
                prior[p].hrefs \subseteq SentTo(p)
    /\ reattempted # {} => aborted

\* a run was killed after calling send_email_smtp and the next run, on the
\* same document, has completed and called it again for those identities
C18_Witness ==
    \E p \in Procs :
        /\ status[p] = "done" /\ prior[p].crashed /\ html[p] = prior[p].html
        /\ prior[p].hrefs # {}
        /\ prior[p].hrefs \subseteq reattempted

\* C19: a completed run under DRY_RUN has got True from every call of
\* send_email_smtp and saved every new item with notified true, and no call
\* without DRY_RUN is ever made for an identity such a run has saved.
C19_DryRunConsumes ==
    /\ \A p \in Procs :
          /\ \A i \in 1..Len(sent[p]) : sent[p][i][3] => sent[p][i][2]
          /\ status[p] = "done" =>
                \A i \in 1..Len(sent[p]) :
                    sent[p][i][3] =>
                        /\ has_key(StoreOf(disk), sent[p][i][1])
                        /\ get(StoreOf(disk), sent[p][i][1]).notified
                        /\ sent[p][i][1] \in dry_saved
    /\ redelivered = {}

\* a run without DRY_RUN has completed on a document that lists an identity a
\* dry run saved, has called send_email_smtp for another record and not for it
C19_Witness ==
    \E p \in Procs :
        /\ status[p] = "done"
        /\ \E i \in 1..Len(sent[p]) : ~sent[p][i][3]
        /\ \E i \in 1..Len(relevant[p]) :
              /\ relevant[p][i].href \in dry_saved
              /\ relevant[p][i].href \notin SentTo(p)
              /\ get(StoreOf(disk), relevant[p][i].href).notified

====
